---- MODULE Spec2Model ----
(***************************************************************************)
(* GOHMoney: Accounts, their TimeRange and the Balance-against-Account     *)
(* consistency check.                                                      *)
(*                                                                         *)
(* The repository holds two generations of package account:                *)
(*   - src/unnamed/part_001 (on GOHMoney.TimeRange / GOHMoney.NullTime),    *)
(*     exercised by the in-package tests of src/unnamed/part_000;          *)
(*   - src/account/account_test.go:93-253 (on go-time's Range, with a      *)
(*     currency code and functional options), exercised by the tests at    *)
(*     src/account/account_test.go:14-91.                                  *)
(* Both are modelled.  The variable pkg says which generation built the     *)
(* Account the state holds.  Definitions of the second generation whose     *)
(* name the first one already uses carry the suffix Opt.                    *)
(***************************************************************************)
EXTENDS Integers, Sequences, FiniteSets, TLC

VARIABLES
    pkg,    \* "none" | "GOHMoney" | "go-money": the generation of the Account held
    a,      \* the Account value (or *Account target) under test; NilAccount when none
    last,   \* the last call made: its name and its arguments
    ret     \* what the last call returned

vars == <<pkg, a, last, ret>>

(***************************************************************************)
(* Bounds                                                                  *)
(***************************************************************************)
MaxTime == 2
MaxNameLen == 2
MaxOpts == 2

(***************************************************************************)
(* time.Time.  t is the instant, counted from the zero time (January 1,    *)
(* year 1, 00:00 UTC), instants before it included; mono says whether the  *)
(* value carries a monotonic clock reading, as time.Now() results do.      *)
(* Equal, Before, After and IsZero read the instant alone.                 *)
(***************************************************************************)
Instants == -1..MaxTime

Wall(i) == [t |-> i, mono |-> FALSE]

ZeroTime == Wall(0)

Now == [t |-> 1, mono |-> TRUE]

Times == {Wall(i) : i \in Instants} \cup {Now}

IsZero(x) == x.t = 0

TimeEqual(x, y) == x.t = y.t

Before(x, y) == x.t < y.t

After(x, y) == x.t > y.t

(***************************************************************************)
(* NullTime (src/NullTime.go)                                              *)
(***************************************************************************)
NullTime(valid, time) == [Valid |-> valid, Time |-> time]

ZeroNullTime == NullTime(FALSE, ZeroTime)

NullTimes == {NullTime(v, x) : v \in BOOLEAN, x \in Times}

\* Equal treating any two invalid NullTimes as equal.
NullTimeEqualInvalidShortcut(x, y) ==
    IF ~x.Valid /\ ~y.Valid THEN TRUE
    ELSE x.Valid = y.Valid /\ TimeEqual(x.Time, y.Time)

NullTimeEqual(x, y) ==
    IF x.Valid # y.Valid \/ ~TimeEqual(x.Time, y.Time) THEN FALSE ELSE TRUE

EqualTime(nt, x) ==
    IF ~nt.Valid THEN FALSE
    ELSE IF ~TimeEqual(nt.Time, x) THEN FALSE
    ELSE TRUE

(***************************************************************************)
(* Errors.  Every error value is a record with a kind; Nil is Go's nil.    *)
(***************************************************************************)
Nil == [kind |-> "nil"]

EmptyNameError == "EmptyNameError"

ZeroDateOpenedError == "ZeroDateOpenedError"

ZeroValidDateClosedError == "ZeroValidDateClosedError"

DateClosedBeforeDateOpenedError == "DateClosedBeforeDateOpenedError"

\* An error value whose Error() is msg.
ErrorOf(msg) == [kind |-> "error", msg |-> msg]

\* AccountFieldError / FieldError: a slice of descriptions.
FieldError(descs) == [kind |-> "FieldError", descs |-> descs]

BalanceDateOutOfAccountTimeRange(date, tr) ==
    [kind |-> "BalanceDateOutOfAccountTimeRange",
     BalanceDate |-> date, AccountTimeRange |-> tr]

(***************************************************************************)
(* Names and strings.TrimSpace                                             *)
(***************************************************************************)
Chars == {" ", "A"}

Names == UNION {[1..n -> Chars] : n \in 0..MaxNameLen}

RECURSIVE TrimLeft(_)
TrimLeft(s) ==
    IF Len(s) > 0 /\ Head(s) = " " THEN TrimLeft(Tail(s)) ELSE s

RECURSIVE TrimRight(_)
TrimRight(s) ==
    IF Len(s) > 0 /\ s[Len(s)] = " " THEN TrimRight(SubSeq(s, 1, Len(s) - 1)) ELSE s

TrimSpace(s) == TrimRight(TrimLeft(s))

(***************************************************************************)
(* TimeRange (GOHMoney.TimeRange, go-time's Range).  The type and its      *)
(* methods are not among the sources; they follow the description of the   *)
(* TimeRange component, narrowed by what the callers and their tests show. *)
(***************************************************************************)
TimeRange(start, end) == [Start |-> start, End |-> end]

ZeroTimeRange == TimeRange(ZeroNullTime, ZeroNullTime)

\* Contains: t is not before start and (end is invalid or t is not after end).
Contains(tr, x) ==
    /\ ~Before(x, tr.Start.Time)
    /\ (~tr.End.Valid \/ ~After(x, tr.End.Time))

\* TimeRange.Equal: both NullTime fields Equal pairwise.
TimeRangeEqual(x, y) ==
    NullTimeEqual(x.Start, y.Start) /\ NullTimeEqual(x.End, y.End)

\* TimeRange.Validate as part_001:69-77 uses it: one error value, whose
\* Error() is appended, while the caller itself performs the two zero checks.
\* The tests of part_000:15-47 fix its result to nil on a range whose start and
\* end are both zero, and part_000:48-63 to DateClosedBeforeDateOpenedError when
\* the valid end is before the start.
TimeRangeValidate(tr) ==
    IF tr.End.Valid /\ Before(tr.End.Time, tr.Start.Time)
    THEN ErrorOf(DateClosedBeforeDateOpenedError)
    ELSE Nil

\* gohtime.Start(t)(tr): the start setter.
gohtimeStart(x, tr) ==
    IF IsZero(x)
    THEN [tr |-> tr, err |-> ErrorOf(ZeroDateOpenedError)]
    ELSE [tr |-> [tr EXCEPT !.Start = NullTime(TRUE, x)], err |-> Nil]

\* gohtime.End(t)(tr): the end setter.
gohtimeEnd(x, tr) ==
    IF IsZero(x)
    THEN [tr |-> tr, err |-> ErrorOf(ZeroValidDateClosedError)]
    ELSE IF Before(x, tr.Start.Time)
    THEN [tr |-> tr, err |-> ErrorOf(DateClosedBeforeDateOpenedError)]
    ELSE [tr |-> [tr EXCEPT !.End = NullTime(TRUE, x)], err |-> Nil]

(***************************************************************************)
(* Balance, as the account package reads it: its Date, and the verdict of  *)
(* its own Validate (package balance), which is carried with the value.    *)
(***************************************************************************)
Balance(date, invalid) == [Date |-> date, invalid |-> invalid]

BalanceValidate(b) ==
    IF b.invalid THEN ErrorOf("BalanceError") ELSE Nil

(***************************************************************************)
(* Account of src/unnamed/part_001                                         *)
(***************************************************************************)
NilAccount == [nil |-> TRUE]

Account(name, tr) == [Name |-> name, timeRange |-> tr]

Start(account) == account.timeRange.Start.Time

End(account) == account.timeRange.End

\* IsOpen reading the end's timestamp instead of its Valid flag.
IsOpenByZeroTime(account) == IsZero(account.timeRange.End.Time)

IsOpen(account) == ~account.timeRange.End.Valid

\* Validate returning at the first failing check.
ValidateShortCircuit(account) ==
    IF Len(TrimSpace(account.Name)) = 0 THEN FieldError(<<EmptyNameError>>)
    ELSE IF TimeRangeValidate(account.timeRange) # Nil
    THEN FieldError(<<TimeRangeValidate(account.timeRange).msg>>)
    ELSE IF IsZero(account.timeRange.Start.Time)
    THEN FieldError(<<ZeroDateOpenedError>>)
    ELSE IF account.timeRange.End.Valid /\ IsZero(account.timeRange.End.Time)
    THEN FieldError(<<ZeroValidDateClosedError>>)
    ELSE Nil

\* Validate with the two zero checks made before the range's own check.
ValidateZeroChecksFirst(account) ==
    LET name == IF Len(TrimSpace(account.Name)) = 0
                THEN <<EmptyNameError>> ELSE <<>>
        opened == IF IsZero(account.timeRange.Start.Time)
                  THEN <<ZeroDateOpenedError>> ELSE <<>>
        closed == IF account.timeRange.End.Valid /\ IsZero(account.timeRange.End.Time)
                  THEN <<ZeroValidDateClosedError>> ELSE <<>>
        trErr == TimeRangeValidate(account.timeRange)
        range == IF trErr # Nil THEN <<trErr.msg>> ELSE <<>>
        fieldErrorDescriptions == name \o opened \o closed \o range
    IN IF Len(fieldErrorDescriptions) > 0
       THEN FieldError(fieldErrorDescriptions)
       ELSE Nil

\* Validate that drops the error of the range's own check.
ValidateDropsRangeError(account) ==
    LET name == IF Len(TrimSpace(account.Name)) = 0
                THEN <<EmptyNameError>> ELSE <<>>
        opened == IF IsZero(account.timeRange.Start.Time)
                  THEN <<ZeroDateOpenedError>> ELSE <<>>
        closed == IF account.timeRange.End.Valid /\ IsZero(account.timeRange.End.Time)
                  THEN <<ZeroValidDateClosedError>> ELSE <<>>
        fieldErrorDescriptions == name \o opened \o closed
    IN IF Len(fieldErrorDescriptions) > 0
       THEN FieldError(fieldErrorDescriptions)
       ELSE Nil

Validate(account) ==
    LET name == IF Len(TrimSpace(account.Name)) = 0
                THEN <<EmptyNameError>> ELSE <<>>
        trErr == TimeRangeValidate(account.timeRange)
        range == IF trErr # Nil THEN <<trErr.msg>> ELSE <<>>
        opened == IF IsZero(Start(account))
                  THEN <<ZeroDateOpenedError>> ELSE <<>>
        closed == IF End(account).Valid /\ IsZero(End(account).Time)
                  THEN <<ZeroValidDateClosedError>> ELSE <<>>
        fieldErrorDescriptions == name \o range \o opened \o closed
    IN IF Len(fieldErrorDescriptions) > 0
       THEN FieldError(fieldErrorDescriptions)
       ELSE Nil

\* New of part_001, called NewAccount by the tests of part_000:310.
NewAccount(name, opened, closed) ==
    LET acc == Account(name, TimeRange(NullTime(TRUE, opened), closed))
        aErr == Validate(acc)
    IN [a |-> acc, err |-> aErr]

\* ValidateBalance checking the date against the range before the Account.
ValidateBalanceDateFirst(account, b) ==
    IF /\ ~Contains(account.timeRange, b.Date)
       /\ (~account.timeRange.End.Valid
           \/ ~TimeEqual(account.timeRange.End.Time, b.Date))
    THEN BalanceDateOutOfAccountTimeRange(b.Date, account.timeRange)
    ELSE IF Validate(account) # Nil THEN Validate(account)
    ELSE BalanceValidate(b)

\* ValidateBalance refusing a date only when it is outside the range and is
\* the close time.
ValidateBalanceCloseDateOnly(account, b) ==
    IF Validate(account) # Nil THEN Validate(account)
    ELSE IF BalanceValidate(b) # Nil THEN BalanceValidate(b)
    ELSE IF /\ ~Contains(account.timeRange, b.Date)
            /\ End(account).Valid
            /\ TimeEqual(End(account).Time, b.Date)
    THEN BalanceDateOutOfAccountTimeRange(b.Date, account.timeRange)
    ELSE Nil

ValidateBalance(account, b) ==
    IF Validate(account) # Nil THEN Validate(account)
    ELSE IF BalanceValidate(b) # Nil THEN BalanceValidate(b)
    ELSE IF /\ ~Contains(account.timeRange, b.Date)
            /\ (~End(account).Valid \/ ~TimeEqual(End(account).Time, b.Date))
    THEN BalanceDateOutOfAccountTimeRange(b.Date, account.timeRange)
    ELSE Nil

\* encoding/json writes a time.Time as RFC 3339 text: the instant survives,
\* the monotonic clock reading does not.  A NullTime is written as the object
\* of its two exported fields.
JSONTime(x) == x.t

ParseJSONTime(i) == Wall(i)

JSONNullTime(nt) == [Time |-> JSONTime(nt.Time), Valid |-> nt.Valid]

ParseJSONNullTime(j) == NullTime(j.Valid, ParseJSONTime(j.Time))

MarshalJSON(account) ==
    [Name |-> account.Name,
     Start |-> JSONTime(Start(account)),
     End |-> JSONNullTime(End(account))]

\* UnmarshalJSON that leaves the decoded start without its Valid flag.
UnmarshalJSONStartNotValid(account, data) ==
    LET acc == [account EXCEPT
                  !.Name = data.Name,
                  !.timeRange = TimeRange(NullTime(FALSE, ParseJSONTime(data.Start)),
                                          ParseJSONNullTime(data.End))]
    IN [a |-> acc, err |-> Validate(acc)]

\* account is the target the bytes are decoded into; it is written even when
\* the resulting Account does not validate.
UnmarshalJSON(account, data) ==
    LET aux == [Name |-> data.Name,
                Start |-> ParseJSONTime(data.Start),
                End |-> ParseJSONNullTime(data.End)]
        acc == [account EXCEPT
                  !.Name = aux.Name,
                  !.timeRange = TimeRange(NullTime(TRUE, aux.Start), aux.End)]
    IN [a |-> acc, err |-> Validate(acc)]

\* Equal comparing the two structs field by field with ==.
EqualStruct(x, y) == x = y

Equal(x, y) ==
    IF x.Name # y.Name THEN FALSE
    ELSE IF ~TimeRangeEqual(x.timeRange, y.timeRange) THEN FALSE
    ELSE TRUE

(***************************************************************************)
(* Account of src/account/account_test.go:93-253: a currency code is added *)
(* and the range is written through go-time's setters only.                *)
(***************************************************************************)
\* currency.Code values; "" is the zero value, which currency.NewCode refuses.
Codes == {"EUR", "GBP"}

currencyNewCode(s) ==
    IF s \in Codes
    THEN [c |-> s, err |-> Nil]
    ELSE [c |-> "", err |-> ErrorOf("InvalidCurrencyCode")]

AccountOpt(name, currencyCode, tr) ==
    [Name |-> name, timeRange |-> tr, currencyCode |-> currencyCode]

ZeroAccountOpt == AccountOpt(<<>>, "", ZeroTimeRange)

ValidateOpt(account) ==
    LET fieldErrorDescriptions ==
            IF Len(TrimSpace(account.Name)) = 0 THEN <<EmptyNameError>> ELSE <<>>
    IN IF Len(fieldErrorDescriptions) > 0
       THEN FieldError(fieldErrorDescriptions)
       ELSE Nil

\* An Option is a func(*Account) error, or nil.  CloseTime(t) is the option
\* that closes the account at t through the range's end setter.
NilOption == [kind |-> "nil"]

CloseTimeOption(x) == [kind |-> "CloseTime", t |-> x]

Options == {NilOption} \cup {CloseTimeOption(x) : x \in Times}

CloseTime(x, account) ==
    LET r == gohtimeEnd(x, account.timeRange)
    IN [a |-> [account EXCEPT !.timeRange = r.tr], err |-> r.err]

\* The loop of New over os, from position i, on the Account built so far.
RECURSIVE ApplyOptions(_, _, _)
ApplyOptions(os, i, account) ==
    IF i > Len(os) THEN [a |-> account, err |-> Nil]
    ELSE IF os[i] = NilOption THEN ApplyOptions(os, i + 1, account)
    ELSE LET r == CloseTime(os[i].t, account)
         IN IF r.err # Nil
            THEN [a |-> NilAccount, err |-> r.err]
            ELSE ApplyOptions(os, i + 1, r.a)

\* New returning the Account it built without asking Validate.
NewWithoutValidate(name, currencyCode, opened, os) ==
    LET a0 == AccountOpt(name, currencyCode, ZeroTimeRange)
        s == gohtimeStart(opened, a0.timeRange)
        a1 == [a0 EXCEPT !.timeRange = s.tr]
        o == ApplyOptions(os, 1, a1)
    IN IF s.err # Nil THEN [a |-> NilAccount, err |-> s.err]
       ELSE IF o.err # Nil THEN [a |-> NilAccount, err |-> o.err]
       ELSE [a |-> o.a, err |-> Nil]

New(name, currencyCode, opened, os) ==
    LET a0 == AccountOpt(name, currencyCode, ZeroTimeRange)
        s == gohtimeStart(opened, a0.timeRange)
        a1 == [a0 EXCEPT !.timeRange = s.tr]
        o == ApplyOptions(os, 1, a1)
    IN IF s.err # Nil THEN [a |-> NilAccount, err |-> s.err]
       ELSE IF o.err # Nil THEN [a |-> NilAccount, err |-> o.err]
       ELSE [a |-> o.a, err |-> ValidateOpt(o.a)]

\* ValidateBalanceOpt with the two halves of its condition joined by "or".
ValidateBalanceOptOr(account, b) ==
    IF ValidateOpt(account) # Nil THEN ValidateOpt(account)
    ELSE IF \/ ~Contains(account.timeRange, b.Date)
            \/ (~account.timeRange.End.Valid
                \/ ~TimeEqual(account.timeRange.End.Time, b.Date))
    THEN BalanceDateOutOfAccountTimeRange(b.Date, account.timeRange)
    ELSE Nil

ValidateBalanceOpt(account, b) ==
    IF ValidateOpt(account) # Nil THEN ValidateOpt(account)
    ELSE IF /\ ~Contains(account.timeRange, b.Date)
            /\ (~End(account).Valid \/ ~TimeEqual(End(account).Time, b.Date))
    THEN BalanceDateOutOfAccountTimeRange(b.Date, account.timeRange)
    ELSE Nil

MarshalJSONOpt(account) ==
    [Name |-> account.Name,
     Start |-> JSONTime(Start(account)),
     End |-> JSONNullTime(End(account)),
     Currency |-> account.currencyCode]

\* account is the target; each step that fails returns with the target as
\* written so far (the name is decoded through the embedded alias first).
UnmarshalJSONOpt(account, data) ==
    LET aux == [Name |-> data.Name,
                Start |-> ParseJSONTime(data.Start),
                End |-> ParseJSONNullTime(data.End),
                Currency |-> data.Currency]
        a1 == [account EXCEPT !.Name = aux.Name]
        c == currencyNewCode(aux.Currency)
        a2 == [a1 EXCEPT !.currencyCode = c.c]
        s == gohtimeStart(aux.Start, ZeroTimeRange)
        e == IF aux.End.Valid THEN gohtimeEnd(aux.End.Time, s.tr)
             ELSE [tr |-> s.tr, err |-> Nil]
        a3 == [a2 EXCEPT !.timeRange = e.tr]
    IN IF c.err # Nil THEN [a |-> a1, err |-> c.err]
       ELSE IF s.err # Nil THEN [a |-> a2, err |-> s.err]
       ELSE IF e.err # Nil THEN [a |-> a2, err |-> e.err]
       ELSE [a |-> a3, err |-> ValidateOpt(a3)]

(***************************************************************************)
(* Inputs                                                                  *)
(***************************************************************************)
\* The start field is unexported and is only ever written as the zero
\* NullTime or as NullTime{Valid: true, Time: t} (part_001:16-19, 132;
\* part_000:28-31, 40); the end field takes any NullTime the caller of
\* New hands over (part_001:12, 20).
Starts == {ZeroNullTime} \cup {NullTime(TRUE, x) : x \in Times}

OptionLists == UNION {[1..n -> Options] : n \in 0..MaxOpts}

\* The Accounts compared with acc by Equal: acc itself and Accounts that
\* differ from it in the name, the start, the end, or the name and the start.
EqualOperands(acc) ==
    {[acc EXCEPT !.Name = n] : n \in Names}
    \cup {[acc EXCEPT !.timeRange.Start = s] : s \in Starts}
    \cup {[acc EXCEPT !.timeRange.End = e] : e \in NullTimes}
    \cup {[acc EXCEPT !.Name = n, !.timeRange.Start = s] :
            n \in {<<>>, <<"A">>}, s \in {ZeroNullTime, NullTime(TRUE, Now)}}

\* The same for an Account built by New, as TestAccount_Equal builds them
\* (account_test.go:56-85): New is called again with the name, the currency,
\* the start or the close time changed.
EqualOperandsOpt(acc) ==
    LET os == IF End(acc).Valid THEN <<CloseTimeOption(End(acc).Time)>> ELSE <<>>
        built ==
            {New(n, acc.currencyCode, Start(acc), os) : n \in Names}
            \cup {New(acc.Name, c, Start(acc), os) : c \in Codes}
            \cup {New(acc.Name, acc.currencyCode, x, os) : x \in Times}
            \cup {New(acc.Name, acc.currencyCode, Start(acc), o) :
                    o \in {<<>>} \cup {<<CloseTimeOption(x)>> : x \in Times}}
            \cup {New(n, c, x, os) : n \in {<<"A">>}, c \in Codes, x \in {Now}}
    IN {r.a : r \in {q \in built : q.a # NilAccount}}

(***************************************************************************)
(* The state machine.  A caller first obtains an Account (a struct        *)
(* literal, a declaration, a constructor) and then calls its methods in    *)
(* any order; last and ret record each call and what it returned.          *)
(***************************************************************************)
Init ==
    /\ pkg = "none"
    /\ a = NilAccount
    /\ last = [op |-> "none"]
    /\ ret = [none |-> TRUE]

\* An in-package struct literal, as the tests of part_000 write them.
AccountLiteral ==
    /\ last.op = "none"
    /\ \E name \in Names, start \in Starts, end \in NullTimes :
         /\ a' = Account(name, TimeRange(start, end))
         /\ last' = [op |-> "Account"]
    /\ pkg' = "GOHMoney"
    /\ ret' = [none |-> TRUE]

DoNewAccount ==
    /\ last.op = "none"
    /\ \E name \in Names, opened \in Times, closed \in NullTimes :
         LET r == NewAccount(name, opened, closed)
         IN /\ a' = r.a
            /\ ret' = [err |-> r.err]
            /\ last' = [op |-> "NewAccount", name |-> name,
                        opened |-> opened, closed |-> closed]
    /\ pkg' = "GOHMoney"

DoValidate ==
    /\ pkg = "GOHMoney"
    /\ ret' = [err |-> Validate(a)]
    /\ last' = [op |-> "Validate"]
    /\ UNCHANGED <<pkg, a>>

DoValidateBalance ==
    /\ pkg = "GOHMoney"
    /\ \E date \in Times, invalid \in BOOLEAN :
         LET b == Balance(date, invalid)
         IN /\ ret' = [err |-> ValidateBalance(a, b)]
            /\ last' = [op |-> "ValidateBalance", b |-> b]
    /\ UNCHANGED <<pkg, a>>

DoMarshalJSON ==
    /\ pkg = "GOHMoney"
    /\ ret' = [data |-> MarshalJSON(a), err |-> Nil]
    /\ last' = [op |-> "MarshalJSON"]
    /\ UNCHANGED <<pkg, a>>

\* The bytes just marshalled are decoded into a freshly declared Account.
DoUnmarshalJSON ==
    /\ pkg = "GOHMoney"
    /\ last.op = "MarshalJSON"
    /\ LET r == UnmarshalJSON(Account(<<>>, ZeroTimeRange), ret.data)
       IN ret' = [b |-> r.a, err |-> r.err]
    /\ last' = [op |-> "UnmarshalJSON", data |-> ret.data]
    /\ UNCHANGED <<pkg, a>>

DoEqual ==
    /\ pkg # "none"
    /\ \E b \in IF pkg = "GOHMoney" THEN EqualOperands(a) ELSE EqualOperandsOpt(a) :
         /\ ret' = [ab |-> Equal(a, b), ba |-> Equal(b, a), aa |-> Equal(a, a)]
         /\ last' = [op |-> "Equal", b |-> b]
    /\ UNCHANGED <<pkg, a>>

DoIsOpen ==
    /\ pkg # "none"
    /\ ret' = [val |-> IsOpen(a)]
    /\ last' = [op |-> "IsOpen"]
    /\ UNCHANGED <<pkg, a>>

\* a.End().Equal(y)
DoNullTimeEqual ==
    /\ pkg # "none"
    /\ \E y \in NullTimes :
         /\ ret' = [val |-> NullTimeEqual(End(a), y)]
         /\ last' = [op |-> "NullTime.Equal", x |-> End(a), y |-> y]
    /\ UNCHANGED <<pkg, a>>

\* a.End().EqualTime(t)
DoEqualTime ==
    /\ pkg # "none"
    /\ \E x \in Times :
         /\ ret' = [val |-> EqualTime(End(a), x)]
         /\ last' = [op |-> "NullTime.EqualTime", nt |-> End(a), t |-> x]
    /\ UNCHANGED <<pkg, a>>

\* var b account.Account
DeclareAccount ==
    /\ last.op = "none"
    /\ a' = ZeroAccountOpt
    /\ pkg' = "go-money"
    /\ last' = [op |-> "Account"]
    /\ ret' = [none |-> TRUE]

DoNew ==
    /\ last.op = "none"
    /\ \E name \in Names, c \in Codes, opened \in Times, os \in OptionLists :
         LET r == New(name, c, opened, os)
         IN /\ a' = r.a
            /\ pkg' = IF r.a = NilAccount THEN "none" ELSE "go-money"
            /\ ret' = [err |-> r.err]
            /\ last' = [op |-> "New", name |-> name, currencyCode |-> c,
                        opened |-> opened, os |-> os]

\* account.CloseTime(t)(&a)
DoCloseTime ==
    /\ pkg = "go-money"
    /\ \E x \in Times :
         LET r == CloseTime(x, a)
         IN /\ a' = r.a
            /\ ret' = [err |-> r.err]
            /\ last' = [op |-> "CloseTime", t |-> x, before |-> a]
    /\ UNCHANGED pkg

DoValidateOpt ==
    /\ pkg = "go-money"
    /\ ret' = [err |-> ValidateOpt(a)]
    /\ last' = [op |-> "Validate"]
    /\ UNCHANGED <<pkg, a>>

DoValidateBalanceOpt ==
    /\ pkg = "go-money"
    /\ \E date \in Times :
         LET b == Balance(date, FALSE)
         IN /\ ret' = [err |-> ValidateBalanceOpt(a, b)]
            /\ last' = [op |-> "ValidateBalance", b |-> b]
    /\ UNCHANGED <<pkg, a>>

DoMarshalJSONOpt ==
    /\ pkg = "go-money"
    /\ ret' = [data |-> MarshalJSONOpt(a), err |-> Nil]
    /\ last' = [op |-> "MarshalJSON"]
    /\ UNCHANGED <<pkg, a>>

DoUnmarshalJSONOpt ==
    /\ pkg = "go-money"
    /\ last.op = "MarshalJSON"
    /\ LET r == UnmarshalJSONOpt(ZeroAccountOpt, ret.data)
       IN ret' = [b |-> r.a, err |-> r.err]
    /\ last' = [op |-> "UnmarshalJSON", data |-> ret.data]
    /\ UNCHANGED <<pkg, a>>

Next ==
    \/ AccountLiteral
    \/ DoNewAccount
    \/ DoValidate
    \/ DoValidateBalance
    \/ DoMarshalJSON
    \/ DoUnmarshalJSON
    \/ DoEqual
    \/ DoIsOpen
    \/ DoNullTimeEqual
    \/ DoEqualTime
    \/ DeclareAccount
    \/ DoNew
    \/ DoCloseTime
    \/ DoValidateOpt
    \/ DoValidateBalanceOpt
    \/ DoMarshalJSONOpt
    \/ DoUnmarshalJSONOpt

Spec == Init /\ [][Next]_vars

(***************************************************************************)
(* Properties                                                              *)
(***************************************************************************)
\* What Validate of the generation the state holds returns for a.
AccountError ==
    IF pkg = "GOHMoney" THEN Validate(a) ELSE ValidateOpt(a)

Blank(name) == \A i \in 1..Len(name) : name[i] = " "

Has(descs, d) == \E i \in 1..Len(descs) : descs[i] = d

\* C1: on an Account whose own Validate returns a FieldError, ValidateBalance
\* returns exactly that FieldError for every Balance, and never the
\* out-of-range error, whether or not the date lies in the range.
C1_InvalidAccountValidateBalance ==
    (last.op = "ValidateBalance" /\ AccountError # Nil) =>
        /\ ret.err = AccountError
        /\ ret.err.kind = "FieldError"
        /\ ret.err.kind # "BalanceDateOutOfAccountTimeRange"

\* C1 witness: an Account with two field errors, asked about a date before its
\* start, answers with those two errors.
C1_Witness ==
    /\ last.op = "ValidateBalance"
    /\ pkg = "GOHMoney"
    /\ Before(last.b.Date, Start(a))
    /\ ret.err.kind = "FieldError"
    /\ Len(ret.err.descs) = 2

\* C2: on an Account that validates, ValidateBalance returns no error when
\* the date is not before the start and the account is open or the date is
\* not after the close time (the start and the close time included);
\* otherwise it returns the out-of-range error carrying that date and the
\* Account's range.  (Where ValidateBalance asks the Balance's own Validate
\* first, this is said of the Balances that pass it.)
C2_ValidateBalanceBoundaries ==
    (/\ last.op = "ValidateBalance"
     /\ AccountError = Nil
     /\ (pkg = "GOHMoney" => BalanceValidate(last.b) = Nil)) =>
        LET d == last.b.Date
            inside == /\ d.t >= a.timeRange.Start.Time.t
                      /\ (~a.timeRange.End.Valid \/ d.t <= a.timeRange.End.Time.t)
        IN IF inside
           THEN ret.err = Nil
           ELSE ret.err = [kind |-> "BalanceDateOutOfAccountTimeRange",
                           BalanceDate |-> d,
                           AccountTimeRange |-> a.timeRange]

\* C2 witness: a closed Account that validates has accepted a Balance dated
\* exactly at its close time, later than its start.
C2_Witness ==
    /\ pkg = "go-money"
    /\ last.op = "ValidateBalance"
    /\ ValidateOpt(a) = Nil
    /\ a.timeRange.End.Valid
    /\ a.timeRange.End.Time.t > a.timeRange.Start.Time.t
    /\ last.b.Date.t = a.timeRange.End.Time.t
    /\ ret.err = Nil

\* C3 as stated: with a blank name and a zero start, whatever the end,
\* Validate returns exactly EmptyNameError then ZeroDateOpenedError.
C3_Original ==
    (/\ pkg = "GOHMoney"
     /\ last.op = "Validate"
     /\ Blank(a.Name)
     /\ IsZero(Start(a))) =>
        ret.err = FieldError(<<EmptyNameError, ZeroDateOpenedError>>)

\* C3 as amended: with a blank name, a zero start and an end that is invalid,
\* or valid with a non-zero time not before the start, Validate returns
\* exactly EmptyNameError then ZeroDateOpenedError.
C3_BlankNameZeroStart ==
    (/\ pkg = "GOHMoney"
     /\ last.op = "Validate"
     /\ Blank(a.Name)
     /\ IsZero(Start(a))
     /\ (End(a).Valid => End(a).Time.t > 0)) =>
        ret.err = FieldError(<<EmptyNameError, ZeroDateOpenedError>>)

\* C3 witness: the name is a single space, the start is zero and the end is
\* a valid later time; Validate has answered with the two errors.
C3_Witness ==
    /\ pkg = "GOHMoney"
    /\ last.op = "Validate"
    /\ a.Name = <<" ">>
    /\ IsZero(Start(a))
    /\ End(a).Valid /\ End(a).Time.t > 0
    /\ ret.err = FieldError(<<EmptyNameError, ZeroDateOpenedError>>)

\* The descriptions Validate owes a, in the order given: one per violated rule.
Owed(acc, order) ==
    LET rule(d) ==
            CASE d = EmptyNameError -> Blank(acc.Name)
              [] d = ZeroDateOpenedError ->
                    ~acc.timeRange.Start.Valid \/ acc.timeRange.Start.Time.t = 0
              [] d = ZeroValidDateClosedError ->
                    acc.timeRange.End.Valid /\ acc.timeRange.End.Time.t = 0
              [] d = DateClosedBeforeDateOpenedError ->
                    /\ acc.timeRange.End.Valid
                    /\ acc.timeRange.End.Time.t < acc.timeRange.Start.Time.t
    IN SelectSeq(order, rule)

\* C4 as stated: Validate reports every violated rule once, in the order
\* EmptyNameError, ZeroDateOpenedError, ZeroValidDateClosedError,
\* DateClosedBeforeDateOpenedError.
C4_Original ==
    (pkg = "GOHMoney" /\ last.op = "Validate") =>
        LET owed == Owed(a, <<EmptyNameError, ZeroDateOpenedError,
                              ZeroValidDateClosedError,
                              DateClosedBeforeDateOpenedError>>)
        IN ret.err = IF owed = <<>> THEN Nil ELSE FieldError(owed)

\* C4 as amended: Validate reports every violated rule once, in the order
\* EmptyNameError, DateClosedBeforeDateOpenedError, ZeroDateOpenedError,
\* ZeroValidDateClosedError; no earlier failure suppresses a later one.
C4_NonShortCircuitOrder ==
    (pkg = "GOHMoney" /\ last.op = "Validate") =>
        LET owed == Owed(a, <<EmptyNameError, DateClosedBeforeDateOpenedError,
                              ZeroDateOpenedError, ZeroValidDateClosedError>>)
        IN ret.err = IF owed = <<>> THEN Nil ELSE FieldError(owed)

\* C4 witness: a blank name, a valid non-zero start and a valid zero end
\* before it: three rules are violated and three errors are reported.
C4_Witness ==
    /\ pkg = "GOHMoney"
    /\ last.op = "Validate"
    /\ ret.err = FieldError(<<EmptyNameError, DateClosedBeforeDateOpenedError,
                              ZeroValidDateClosedError>>)

\* C5: a range whose valid end is strictly before its valid start fails its
\* own Validate with DateClosedBeforeDateOpenedError, and Validate on the
\* Account that owns it reports DateClosedBeforeDateOpenedError too.
C5_ClosedBeforeOpened ==
    (/\ pkg # "none"
     /\ a.timeRange.Start.Valid
     /\ a.timeRange.End.Valid
     /\ a.timeRange.End.Time.t < a.timeRange.Start.Time.t) =>
        /\ TimeRangeValidate(a.timeRange) = ErrorOf(DateClosedBeforeDateOpenedError)
        /\ last.op = "Validate" =>
             /\ ret.err.kind = "FieldError"
             /\ Has(ret.err.descs, DateClosedBeforeDateOpenedError)

\* C5 witness: Validate has run on a named Account whose valid end is before
\* its valid start, and its only error is DateClosedBeforeDateOpenedError.
C5_Witness ==
    /\ pkg = "GOHMoney"
    /\ last.op = "Validate"
    /\ a.timeRange.Start.Valid
    /\ a.timeRange.End.Valid
    /\ a.timeRange.End.Time.t < a.timeRange.Start.Time.t
    /\ ret.err = FieldError(<<DateClosedBeforeDateOpenedError>>)

\* C6 as stated: when New returns an error, the failed Validate included, it
\* returns no Account.
C6_Original ==
    (last.op = "New" /\ ret.err # Nil) => a = NilAccount

C8_Equal ==
    last.op = "Equal" =>
        LET b == last.b
            same == /\ a.Name = b.Name
                    /\ a.timeRange.Start.Valid = b.timeRange.Start.Valid
                    /\ a.timeRange.Start.Time.t = b.timeRange.Start.Time.t
                    /\ a.timeRange.End.Valid = b.timeRange.End.Valid
                    /\ a.timeRange.End.Time.t = b.timeRange.End.Time.t
        IN /\ ret.ab = same
           /\ ret.ba = ret.ab
           /\ ret.aa = TRUE

\* C8 witness: two Accounts that differ in the currency code alone have
\* been found Equal.
C8_Witness ==
    /\ pkg = "go-money"
    /\ last.op = "Equal"
    /\ last.b.currencyCode # a.currencyCode
    /\ ret.ab = TRUE

\* C9: NullTime.Equal is true exactly when the Valid flags agree and the
\* instants agree, also when both values are invalid.
C9_NullTimeEqual ==
    last.op = "NullTime.Equal" =>
        ret.val = (last.x.Valid = last.y.Valid /\ last.x.Time.t = last.y.Time.t)

\* C9 witness: two invalid NullTimes with different instants have been
\* found not Equal.
C9_Witness ==
    /\ last.op = "NullTime.Equal"
    /\ ~last.x.Valid
    /\ ~last.y.Valid
    /\ last.x.Time.t # last.y.Time.t
    /\ ret.val = FALSE

\* C10: an Account that New returns without error and without a close
\* option is open, its end invalid; after CloseTime(t) succeeds on an
\* Account its end is valid, EqualTime(t) holds and it is not open; and
\* IsOpen is true exactly when the end is invalid, in every state.
C10_OpenCloseLifecycle ==
    /\ (/\ last.op = "New"
        /\ ret.err = Nil
        /\ \A i \in 1..Len(last.os) : last.os[i] = NilOption) =>
            (~a.timeRange.End.Valid /\ IsOpen(a))
    /\ (last.op = "CloseTime" /\ ret.err = Nil) =>
            /\ a.timeRange.End.Valid
            /\ EqualTime(End(a), last.t)
            /\ ~IsOpen(a)
    /\ last.op = "IsOpen" => ret.val = ~a.timeRange.End.Valid
    /\ pkg # "none" => IsOpen(a) = ~a.timeRange.End.Valid

\* C10 witness: CloseTime has succeeded on an Account that was open, and
\* the Account is now closed at that time.
C10_Witness ==
    /\ last.op = "CloseTime"
    /\ ret.err = Nil
    /\ IsOpen(last.before)
    /\ ~IsOpen(a)
    /\ EqualTime(End(a), last.t)

\* The invariants of an Account: the name is not blank, the start is valid
\* and not the zero time, and a valid end is not the zero time and not
\* strictly before the start.
Invariants(acc) ==
    /\ ~Blank(acc.Name)
    /\ acc.timeRange.Start.Valid
    /\ ~IsZero(acc.timeRange.Start.Time)
    /\ acc.timeRange.End.Valid =>
          /\ ~IsZero(acc.timeRange.End.Time)
          /\ ~Before(acc.timeRange.End.Time, acc.timeRange.Start.Time)

\* C11: an Account that New returned without error satisfies the invariants
\* and passes Validate; every CloseTime applied to an Account satisfying
\* them, succeeding or failing, leaves an Account that satisfies them and
\* passes Validate, and a failing one leaves the Account as it was.  Hence
\* every Account reached from New without error (in this generation: every
\* Account with a non-blank name, the name never being rewritten) satisfies
\* the invariants and passes Validate, the older four-check Validate
\* included.
C11_ValidityPreserved ==
    /\ (last.op = "New" /\ ret.err = Nil) =>
          (Invariants(a) /\ ValidateOpt(a) = Nil)
    /\ (last.op = "CloseTime" /\ Invariants(last.before)) =>
          /\ Invariants(a)
          /\ ValidateOpt(a) = Nil
          /\ ret.err # Nil => a = last.before
    /\ (pkg = "go-money" /\ ~Blank(a.Name)) =>
          /\ Invariants(a)
          /\ ValidateOpt(a) = Nil
          /\ Validate(a) = Nil

\* C11 witness: a CloseTime has failed on an Account that satisfies the
\* invariants and had already been closed, so at least two close options
\* have been applied, one succeeding and one failing.
C11_Witness ==
    /\ last.op = "CloseTime"
    /\ ret.err # Nil
    /\ Invariants(last.before)
    /\ last.before.timeRange.End.Valid
    /\ Invariants(a)

\* C12: on an Account that validates, ValidateBalance returns no error
\* exactly when the range's Contains holds of the Balance's date, so the
\* check made with Contains alone returns the same result as ValidateBalance
\* with its close-time clause.  (Where ValidateBalance asks the Balance's own
\* Validate first, this is said of the Balances that pass it.)
C12_CloseClauseRedundant ==
    (/\ last.op = "ValidateBalance"
     /\ AccountError = Nil
     /\ (pkg = "GOHMoney" => BalanceValidate(last.b) = Nil)) =>
        LET containsAlone ==
                IF ~Contains(a.timeRange, last.b.Date)
                THEN BalanceDateOutOfAccountTimeRange(last.b.Date, a.timeRange)
                ELSE Nil
        IN /\ ret.err = Nil <=> Contains(a.timeRange, last.b.Date)
           /\ ret.err = containsAlone

\* C12 witness: a closed Account that validates has been asked about a
\* Balance dated exactly at its close time, later than its start; Contains
\* holds of that date and no error came back.
C12_Witness ==
    /\ last.op = "ValidateBalance"
    /\ AccountError = Nil
    /\ End(a).Valid
    /\ TimeEqual(End(a).Time, last.b.Date)
    /\ After(End(a).Time, Start(a))
    /\ Contains(a.timeRange, last.b.Date)
    /\ ret.err = Nil

====
